---- MODULE Spec2Model ----
(***************************************************************************)
(* Expense ledger of src/main.rs: the line codec (load_expenses,           *)
(* save_expenses), the in-memory store (add, list, sum, delete) and the    *)
(* life of one process invocation (main, new, Drop).                       *)
(*                                                                         *)
(* Text is a sequence of one-character strings.  An f32 amount is a signed *)
(* count of hundredths: the model covers the decimals with at most two     *)
(* fractional digits and no exponent, inf or NaN; the alphabet of the      *)
(* modelled files and arguments cannot spell any other literal.            *)
(***************************************************************************)
EXTENDS Integers, Sequences, FiniteSets, TLC

\* ------------------------------------------------------------------ bounds
\* Most Add commands that succeed in one behaviour.
MaxAdds == 2

\* ------------------------------------------------------------------- text
\* i32::MAX, the largest id (Expense.id and next_id are i32).
I32Max == 2147483647
I32Min == -I32Max - 1

DigitChars == <<"0", "1", "2", "3", "4", "5", "6", "7", "8", "9">>
IsDigit(c) == \E i \in 1..10 : DigitChars[i] = c
DigitVal(c) == (CHOOSE i \in 1..10 : DigitChars[i] = c) - 1

\* char::is_whitespace, on the characters of the model.
IsWhitespace(c) == c \in {" ", "\t", "\n", "\r"}

RECURSIVE TrimStart(_)
TrimStart(s) ==
    IF s # <<>> /\ IsWhitespace(Head(s)) THEN TrimStart(Tail(s)) ELSE s

RECURSIVE TrimEnd(_)
TrimEnd(s) ==
    IF s # <<>> /\ IsWhitespace(s[Len(s)])
    THEN TrimEnd(SubSeq(s, 1, Len(s) - 1))
    ELSE s

\* str::trim
Trim(s) == TrimEnd(TrimStart(s))

\* Index of the first c in s, 0 when there is none.
Find(s, c) ==
    IF \E i \in 1..Len(s) : s[i] = c
    THEN CHOOSE i \in 1..Len(s) : s[i] = c /\ \A j \in 1..(i - 1) : s[j] # c
    ELSE 0

\* Index of the last c in s, 0 when there is none.
RFind(s, c) ==
    IF \E i \in 1..Len(s) : s[i] = c
    THEN CHOOSE i \in 1..Len(s) : s[i] = c /\ \A j \in (i + 1)..Len(s) : s[j] # c
    ELSE 0

\* str::splitn(3, ' '): at most three parts, cut at the first two spaces.
SplitN3(s) ==
    LET i == Find(s, " ") IN
    IF i = 0 THEN <<s>>
    ELSE LET rest == SubSeq(s, i + 1, Len(s))
             j == Find(rest, " ")
         IN  IF j = 0 THEN <<SubSeq(s, 1, i - 1), rest>>
             ELSE <<SubSeq(s, 1, i - 1), SubSeq(rest, 1, j - 1),
                    SubSeq(rest, j + 1, Len(rest))>>

\* str::rsplitn(2, '|'): from the right, so the part after the last '|' is first.
RSplitN2(s) ==
    LET i == RFind(s, "|") IN
    IF i = 0 THEN <<s>>
    ELSE <<SubSeq(s, i + 1, Len(s)), SubSeq(s, 1, i - 1)>>

Err == [ok |-> FALSE, val |-> 0]
Ok(v) == [ok |-> TRUE, val |-> v]

\* Digits of a positive literal, most significant first; overflow is an error.
RECURSIVE ParsePos(_, _)
ParsePos(s, acc) ==
    IF s = <<>> THEN Ok(acc)
    ELSE IF ~IsDigit(Head(s)) THEN Err
    ELSE LET d == DigitVal(Head(s)) IN
         IF acc > (I32Max - d) \div 10 THEN Err
         ELSE ParsePos(Tail(s), acc * 10 + d)

\* Digits of a negative literal, accumulated below zero as from_str_radix does.
RECURSIVE ParseNeg(_, _)
ParseNeg(s, acc) ==
    IF s = <<>> THEN Ok(acc)
    ELSE IF ~IsDigit(Head(s)) THEN Err
    ELSE LET d == DigitVal(Head(s))
             lim == IF d = 0 THEN I32Max \div 10 ELSE (I32Max - d + 1) \div 10
         IN  IF (0 - acc) > lim THEN Err
             ELSE ParseNeg(Tail(s), acc * 10 - d)

\* str::parse::<i32>: an optional sign, then at least one digit, within i32.
ParseI32(s) ==
    IF s = <<>> THEN Err
    ELSE IF Head(s) = "-"
         THEN (IF Len(s) = 1 THEN Err ELSE ParseNeg(Tail(s), 0))
    ELSE IF Head(s) = "+"
         THEN (IF Len(s) = 1 THEN Err ELSE ParsePos(Tail(s), 0))
    ELSE ParsePos(s, 0)

\* str::parse::<u32>: an optional '+', then at least one digit.
ParseU32(s) ==
    IF s = <<>> THEN Err
    ELSE IF Head(s) = "+"
         THEN (IF Len(s) = 1 THEN Err ELSE ParsePos(Tail(s), 0))
    ELSE ParsePos(s, 0)

AllDigits(s) == \A i \in 1..Len(s) : IsDigit(s[i])

\* The hundredths that the fractional digits f stand for.
FracVal(f) ==
    (IF Len(f) >= 1 THEN 10 * DigitVal(f[1]) ELSE 0)
      + (IF Len(f) >= 2 THEN DigitVal(f[2]) ELSE 0)

\* An unsigned decimal literal: digits, optionally a '.' and more digits, at
\* least one digit in all.
ParseDecimal(s) ==
    LET p == Find(s, ".")
        ip == IF p = 0 THEN s ELSE SubSeq(s, 1, p - 1)
        fp == IF p = 0 THEN <<>> ELSE SubSeq(s, p + 1, Len(s))
        iv == IF ip = <<>> THEN Ok(0) ELSE ParsePos(ip, 0)
    IN  IF ip = <<>> /\ fp = <<>> THEN Err
        ELSE IF ~AllDigits(ip) \/ ~AllDigits(fp) \/ ~iv.ok THEN Err
        ELSE IF iv.val > 1000000 THEN Err  \* beyond the modelled range of amounts
        ELSE Ok(iv.val * 100 + FracVal(fp))

\* str::parse::<f32>: an optional sign and a decimal literal; no trimming.
ParseF32(s) ==
    IF s = <<>> THEN Err
    ELSE IF Head(s) = "-"
         THEN LET r == ParseDecimal(Tail(s)) IN
              IF r.ok THEN Ok(0 - r.val) ELSE Err
    ELSE IF Head(s) = "+" THEN ParseDecimal(Tail(s))
    ELSE ParseDecimal(s)

RECURSIVE Digits(_)
Digits(n) ==
    IF n < 10 THEN <<DigitChars[n + 1]>>
    ELSE Digits(n \div 10) \o <<DigitChars[(n % 10) + 1]>>

\* Display of i32.
FormatI32(n) ==
    IF n = I32Min
    THEN <<"-", "2", "1", "4", "7", "4", "8", "3", "6", "4", "8">>
    ELSE IF n < 0 THEN <<"-">> \o Digits(0 - n)
    ELSE Digits(n)

\* Display of f32: the shortest decimal that reads back as the same value, so
\* no trailing zeros and no '.' for a whole number.
FormatF32(v) ==
    LET m == IF v < 0 THEN 0 - v ELSE v
        f == m % 100
        frac == IF f = 0 THEN <<>>
                ELSE IF f % 10 = 0 THEN <<".", DigitChars[(f \div 10) + 1]>>
                ELSE <<".", DigitChars[(f \div 10) + 1], DigitChars[(f % 10) + 1]>>
    IN  (IF v < 0 THEN <<"-">> ELSE <<>>) \o Digits(m \div 100) \o frac

\* ------------------------------------------------------------------ codec
\* struct Expense
Expense(id, date, description, amount) ==
    [id |-> id, date |-> date, description |-> description, amount |-> amount]

Skip == [ok |-> FALSE, rec |-> Expense(0, <<>>, <<>>, 0)]

\* The body of the loop of load_expenses for one line: the record the line
\* pushes, or Skip where the code says `continue` or the `if let` fails.
DecodeLine(line) ==
    LET parts == SplitN3(Trim(line)) IN
    IF Len(parts) < 3 THEN Skip
    ELSE LET desc_split == RSplitN2(parts[3]) IN
         IF Len(desc_split) # 2 THEN Skip
         ELSE LET id == ParseI32(parts[1])
                  amount == ParseF32(desc_split[1])
              IN  IF id.ok /\ amount.ok
                  THEN [ok |-> TRUE,
                        rec |-> Expense(id.val, parts[2], Trim(desc_split[2]),
                                        amount.val)]
                  ELSE Skip

\* The text one writeln! of save_expenses puts in the file, without the newline.
Encode(e) ==
    FormatI32(e.id) \o <<" ">> \o e.date \o <<" ">> \o e.description
      \o <<"|">> \o FormatF32(e.amount)

\* The whole file save_expenses writes.
RECURSIVE SavedContent(_)
SavedContent(exps) ==
    IF exps = <<>> THEN <<>>
    ELSE Encode(Head(exps)) \o <<"\n">> \o SavedContent(Tail(exps))

\* BufRead::lines: the text between newlines, a "\r" before the newline
\* dropped; a last line needs no newline.
RECURSIVE ReaderLines(_)
ReaderLines(c) ==
    IF c = <<>> THEN <<>>
    ELSE LET i == Find(c, "\n")
             raw == IF i = 0 THEN c ELSE SubSeq(c, 1, i - 1)
             line == IF i # 0 /\ raw # <<>> /\ raw[Len(raw)] = "\r"
                     THEN SubSeq(raw, 1, Len(raw) - 1)
                     ELSE raw
         IN  <<line>> \o (IF i = 0 THEN <<>>
                          ELSE ReaderLines(SubSeq(c, i + 1, Len(c))))

\* The loop of load_expenses over the lines read.  `id + 1` at i32::MAX panics
\* in a build with overflow checks (after the push) and wraps in one without.
RECURSIVE LoadLines(_, _, _, _)
LoadLines(lines, exps, nid, checks) ==
    IF lines = <<>>
    THEN [expenses |-> exps, next_id |-> nid, panicked |-> FALSE]
    ELSE LET d == DecodeLine(Head(lines)) IN
         IF ~d.ok THEN LoadLines(Tail(lines), exps, nid, checks)
         ELSE LET pushed == Append(exps, d.rec) IN
              IF d.rec.id < nid THEN LoadLines(Tail(lines), pushed, nid, checks)
              ELSE IF d.rec.id # I32Max
                   THEN LoadLines(Tail(lines), pushed, d.rec.id + 1, checks)
              ELSE IF checks
                   THEN [expenses |-> pushed, next_id |-> nid, panicked |-> TRUE]
              ELSE LoadLines(Tail(lines), pushed, I32Min, checks)

\* ------------------------------------------------------------------ store
\* The month of a date: date.get(5..7) parsed as u32, 0 when there is none.
ExpenseMonth(date) ==
    IF Len(date) < 7 THEN 0
    ELSE LET m == ParseU32(SubSeq(date, 6, 7)) IN
         IF m.ok THEN m.val ELSE 0

\* sum_expenses: month is Option<u32>, hasMonth its is_some().
RECURSIVE SumExpenses(_, _, _)
SumExpenses(exps, hasMonth, month) ==
    IF exps = <<>> THEN 0
    ELSE (IF ~hasMonth \/ month = ExpenseMonth(Head(exps).date)
          THEN Head(exps).amount ELSE 0)
           + SumExpenses(Tail(exps), hasMonth, month)

\* A search from the back, as rposition would do: the last record with the id.
PositionFromBack(exps, id) ==
    IF \E i \in 1..Len(exps) : exps[i].id = id
    THEN CHOOSE i \in 1..Len(exps) :
            exps[i].id = id /\ \A j \in (i + 1)..Len(exps) : exps[j].id # id
    ELSE 0

\* iter().position(|x| x.id == id): 0 stands for None.
Position(exps, id) ==
    IF \E i \in 1..Len(exps) : exps[i].id = id
    THEN CHOOSE i \in 1..Len(exps) :
            exps[i].id = id /\ \A j \in 1..(i - 1) : exps[j].id # id
    ELSE 0

\* Vec::remove(pos)
RemoveAt(exps, pos) ==
    SubSeq(exps, 1, pos - 1) \o SubSeq(exps, pos + 1, Len(exps))

\* ----------------------------------------------------------------- inputs
SP == <<" ">>
NL == <<"\n">>
D0115 == <<"2", "0", "2", "4", "-", "0", "1", "-", "1", "5">>
D0131 == <<"2", "0", "2", "4", "-", "0", "1", "-", "3", "1">>
D0201 == <<"2", "0", "2", "4", "-", "0", "2", "-", "0", "1">>
DBadMonth == <<"2", "0", "2", "4", "-", "x", "x", "-", "0", "1">>
DShort == <<"2", "0", "2", "4">>

\* One line of a ledger file as an editor or save_expenses leaves it.
FileLine(id, date, description, amount) ==
    id \o SP \o date \o SP \o description \o <<"|">> \o amount \o NL

\* Two good lines around a malformed one; a description with a '|' of its own.
FileGarbage ==
    FileLine(<<"1">>, D0115, <<"a">>, <<"3", ".", "5", "0">>)
      \o <<"a", "b", " ", "c">> \o NL
      \o FileLine(<<"2">>, D0201, <<"b", "|", "c">>, <<"1", "2", ".", "0", "0">>)

\* Ids 3, 7, 1 in three months' records.
FileIds371 ==
    FileLine(<<"3">>, D0115, <<"a">>, <<"1", "0">>)
      \o FileLine(<<"7">>, D0201, <<"b">>, <<"2", "0">>)
      \o FileLine(<<"1">>, D0131, <<"a">>, <<"5">>)

FileDuplicate ==
    FileLine(<<"1">>, D0115, <<"a">>, <<"1">>)
      \o FileLine(<<"1">>, D0201, <<"b">>, <<"2">>)

\* Fields separated by tabs.
FileTabs ==
    <<"1", "\t">> \o D0115 \o <<"\t", "a", "|", "1">> \o NL

FileMax ==
    FileLine(<<"2", "1", "4", "7", "4", "8", "3", "6", "4", "7">>, D0115,
             <<"a">>, <<"1">>)
      \o FileLine(<<"1">>, D0201, <<"b">>, <<"2">>)

FileNearMax ==
    FileLine(<<"2", "1", "4", "7", "4", "8", "3", "6", "4", "6">>, D0115,
             <<"a">>, <<"1">>)

FileNegative == FileLine(<<"-", "5">>, D0115, <<"a">>, <<"1">>)

\* Dates with no month at bytes 5..7.
FileBadMonth ==
    FileLine(<<"4">>, DBadMonth, <<"a">>, <<"5">>)
      \o FileLine(<<"5">>, DShort, <<"b">>, <<"2">>)
      \o FileLine(<<"6">>, D0115, <<"a">>, <<"1">>)

\* The ledger files a run may find: none, an empty one, and the texts above.
InitialFiles ==
    {[exists |-> FALSE, content |-> <<>>]}
      \cup {[exists |-> TRUE, content |-> c] :
              c \in {<<>>, FileGarbage, FileIds371, FileDuplicate, FileTabs,
                     FileMax, FileNearMax, FileNegative, FileBadMonth}}

\* --description values: none, a word, one with a line break.
Descriptions == {<<>>, <<"a">>, <<"x", "\n", "1", " ", "2", " ", "b">>}
\* --amount values after parse().unwrap_or(0.0), in hundredths.
Amounts == {0, 350}
\* --month values after parse().ok(): none, or a u32.
Months == {[some |-> FALSE, val |-> 0]}
            \cup {[some |-> TRUE, val |-> m] : m \in {0, 1, 2}}
\* --id values after parse().unwrap_or(0).
DeleteIds == {0, 1, 7}
\* Utc::now() as formatted by get_current_date.
Today == {D0201}

Args(name, description, amount, month, id) ==
    [name |-> name, description |-> description, amount |-> amount,
     month |-> month, id |-> id]
NoMonth == [some |-> FALSE, val |-> 0]

\* The command lines of the model; "none" is a command line without a command.
Commands ==
    {Args(n, <<>>, 0, NoMonth, 0) : n \in {"none", "bogus", "list"}}
      \cup {Args("summary", <<>>, 0, m, 0) : m \in Months}
      \cup {Args("delete", <<>>, 0, NoMonth, i) : i \in DeleteIds}
      \cup {Args("add", d, a, NoMonth, 0) : d \in Descriptions, a \in Amounts}

\* ------------------------------------------------------------------ state
VARIABLES
    fileExists,      \* expenses.txt exists
    fileContent,     \* its text
    pc,              \* where the process is
    args,            \* its command line
    expenses,        \* ExpenseTracker.expenses
    next_id,         \* ExpenseTracker.next_id
    output,          \* what the command reported
    outcome,         \* how the process ended
    panicCause,      \* the expression that panicked
    adds,            \* calls of add_expense, over all invocations
    deletedIds,      \* ids delete_expense removed, over all invocations
    fileAtStart,     \* the file as the invocation found it
    saves,           \* calls of save_expenses in this invocation
    savedAt          \* pc at the save that wrote the file

vars == <<fileExists, fileContent, pc, args, expenses, next_id, output,
          outcome, panicCause, adds, deletedIds, fileAtStart, saves, savedAt>>
history == <<adds, deletedIds>>

\* What the process does not decide is a choice at the step that meets it:
\* whether File::open and File::create succeed (the file's permissions), and
\* what the build does on integer overflow (panic with overflow checks, wrap
\* without) and on panic (unwind, running destructors, or abort).
disk == <<fileExists, fileContent>>
NoOutput == [kind |-> "none", num |-> 0]

Init ==
    /\ \E f \in InitialFiles :
         /\ fileExists = f.exists
         /\ fileContent = f.content
         /\ fileAtStart = f
    /\ pc = "idle"
    /\ args = Args("none", <<>>, 0, NoMonth, 0)
    /\ expenses = <<>>
    /\ next_id = 1
    /\ output = NoOutput
    /\ outcome = "none"
    /\ panicCause = "none"
    /\ adds = 0
    /\ deletedIds = {}
    /\ saves = 0
    /\ savedAt = "none"

\* A process starts with a command line.
Start(cmd) ==
    /\ pc \in {"idle", "done"}
    /\ cmd.name = "add" /\ cmd.description # <<>> /\ cmd.amount > 0
         => adds < MaxAdds
    /\ pc' = "main"
    /\ args' = cmd
    /\ expenses' = <<>>
    /\ next_id' = 1
    /\ output' = NoOutput
    /\ outcome' = "running"
    /\ panicCause' = "none"
    /\ fileAtStart' = [exists |-> fileExists, content |-> fileContent]
    /\ saves' = 0
    /\ savedAt' = "none"
    /\ UNCHANGED <<disk, history>>

\* process::exit(1): the process ends at once, no destructor runs.
Exit1 ==
    /\ pc' = "done"
    /\ outcome' = "exit1"
    /\ UNCHANGED <<disk, args, expenses, next_id, history, fileAtStart,
                   saves, savedAt, panicCause>>

\* main, args.len() < 2
InsufficientArguments ==
    /\ pc = "main"
    /\ args.name = "none"
    /\ output' = [kind |-> "error", num |-> 0]
    /\ Exit1

\* ExpenseTracker::new: the empty tracker, then load_expenses.
New ==
    /\ pc = "main"
    /\ args.name # "none"
    /\ IF ~fileExists
       THEN /\ expenses' = <<>>
            /\ next_id' = 1
            /\ pc' = "dispatch"
            /\ panicCause' = "none"
       ELSE \E canOpen \in BOOLEAN, overflowChecks \in BOOLEAN :
              IF ~canOpen
              THEN /\ expenses' = <<>>
                   /\ next_id' = 1
                   /\ pc' = "panicking"
                   /\ panicCause' = "open"
              ELSE LET r == LoadLines(ReaderLines(fileContent), <<>>, 1,
                                      overflowChecks)
                   IN  /\ expenses' = r.expenses
                       /\ next_id' = r.next_id
                       /\ pc' = IF r.panicked THEN "panicking" ELSE "dispatch"
                       /\ panicCause' = IF r.panicked THEN "load" ELSE "none"
    /\ UNCHANGED <<disk, args, output, outcome, history, fileAtStart,
                   saves, savedAt>>

\* The command ran and main returns: the tracker goes out of scope.
Return ==
    /\ pc' = "returning"
    /\ UNCHANGED <<disk, args, outcome, fileAtStart, saves, savedAt,
                   panicCause>>

\* main "add": the argument check, then add_expense.  `next_id += 1` at
\* i32::MAX panics after the push in a build with overflow checks, and wraps
\* in one without.
AddCommand ==
    /\ pc = "dispatch"
    /\ args.name = "add"
    /\ IF args.description = <<>> \/ args.amount <= 0
       THEN /\ output' = [kind |-> "error", num |-> 1]
            /\ Exit1
       ELSE \E today \in Today, overflowChecks \in BOOLEAN :
              LET expense == Expense(next_id, today, args.description, args.amount)
              IN  /\ expenses' = Append(expenses, expense)
                  /\ adds' = adds + 1
                  /\ IF next_id = I32Max /\ overflowChecks
                     THEN /\ UNCHANGED <<next_id, output>>
                          /\ pc' = "panicking"
                          /\ panicCause' = "add"
                     ELSE /\ next_id' = IF next_id = I32Max THEN I32Min
                                        ELSE next_id + 1
                          /\ output' = [kind |-> "added", num |-> expense.id]
                          /\ pc' = "returning"
                          /\ UNCHANGED panicCause
                  /\ UNCHANGED <<disk, args, outcome, fileAtStart, saves,
                                 savedAt, deletedIds>>

\* main "list": list_expenses
ListCommand ==
    /\ pc = "dispatch"
    /\ args.name = "list"
    /\ output' = [kind |-> IF expenses = <<>> THEN "empty" ELSE "listed",
                  num |-> Len(expenses)]
    /\ Return
    /\ UNCHANGED <<expenses, next_id, history>>

\* main "summary": sum_expenses(month)
SummaryCommand ==
    /\ pc = "dispatch"
    /\ args.name = "summary"
    /\ output' = [kind |-> "total",
                  num |-> SumExpenses(expenses, args.month.some, args.month.val)]
    /\ Return
    /\ UNCHANGED <<expenses, next_id, history>>

\* delete_expense
DeleteExpense(id) ==
    LET pos == Position(expenses, id) IN
    IF pos # 0
    THEN /\ expenses' = RemoveAt(expenses, pos)
         /\ output' = [kind |-> "deleted", num |-> id]
         /\ deletedIds' = deletedIds \cup {id}
    ELSE /\ expenses' = expenses
         /\ output' = [kind |-> "notfound", num |-> id]
         /\ deletedIds' = deletedIds

\* main "delete": the argument check, then delete_expense.
DeleteCommand ==
    /\ pc = "dispatch"
    /\ args.name = "delete"
    /\ IF args.id <= 0
       THEN /\ output' = [kind |-> "error", num |-> 2]
            /\ Exit1
       ELSE /\ DeleteExpense(args.id)
            /\ Return
            /\ UNCHANGED <<next_id, adds>>

\* main, any other command
UnknownCommand ==
    /\ pc = "dispatch"
    /\ args.name \notin {"add", "list", "summary", "delete"}
    /\ output' = [kind |-> "error", num |-> 3]
    /\ Exit1

\* Drop for ExpenseTracker: save_expenses, when main returns and when a panic
\* unwinds through the frame that owns the tracker (new's or main's).
Drop ==
    /\ pc \in {"returning", "panicking"}
    /\ saves' = saves + 1
    /\ \E canCreate \in BOOLEAN :
         IF canCreate
         THEN /\ fileExists' = TRUE
              /\ fileContent' = SavedContent(expenses)
              /\ savedAt' = pc
         ELSE UNCHANGED <<disk, savedAt>>
    /\ pc' = "done"
    /\ outcome' = IF pc = "returning" THEN "ok" ELSE "panic"
    /\ UNCHANGED <<args, expenses, next_id, output, history, fileAtStart,
                   panicCause>>

\* A panic in a build with panic = "abort": no destructor runs.
Abort ==
    /\ pc = "panicking"
    /\ pc' = "done"
    /\ outcome' = "panic"
    /\ UNCHANGED <<disk, args, expenses, next_id, output, history,
                   fileAtStart, saves, savedAt, panicCause>>

Next ==
    \/ \E cmd \in Commands : Start(cmd)
    \/ InsufficientArguments
    \/ New
    \/ AddCommand
    \/ ListCommand
    \/ SummaryCommand
    \/ DeleteCommand
    \/ UnknownCommand
    \/ Drop
    \/ Abort

Spec == Init /\ [][Next]_vars

\* The runs that begin without a ledger file: every later file is one the
\* program wrote.
InitFresh == Init /\ ~fileExists
SpecFresh == InitFresh /\ [][Next]_vars

\* ----------------------------------------------------------------- claims
\* C1: over any sequence of add and delete commands, one per process, the id
\* add_expense hands out is never the id of a record that was deleted before.
C1_IdsNeverReassigned ==
    pc = "returning" /\ args.name = "add" => output.num \notin deletedIds

UniqueIds(exps) ==
    \A i, j \in 1..Len(exps) : i # j => exps[i].id # exps[j].id

\* C2: no two records of the in-memory collection have the same id, after
\* Load and after every Add and DeleteById.
C2_IdsUnique == UniqueIds(expenses)

\* C3: Load completes for every id Decode accepts and leaves next_id strictly
\* greater than every loaded id (1 when nothing was loaded); the Add that
\* follows gives the new record that value and increments next_id by one.
C3_NextIdAboveLoadedIds ==
    /\ panicCause \notin {"load", "add"}
    /\ pc = "dispatch" =>
         /\ \A i \in 1..Len(expenses) : expenses[i].id < next_id
         /\ expenses = <<>> => next_id = 1
    /\ pc = "returning" /\ args.name = "add" =>
         /\ output = [kind |-> "added", num |-> expenses[Len(expenses)].id]
         /\ expenses[Len(expenses)].id < next_id
         /\ next_id - 1 = expenses[Len(expenses)].id

\* The records of the lines that decode, in file order.
RECURSIVE DecodedRecords(_)
DecodedRecords(lines) ==
    IF lines = <<>> THEN <<>>
    ELSE (IF DecodeLine(Head(lines)).ok THEN <<DecodeLine(Head(lines)).rec>>
          ELSE <<>>) \o DecodedRecords(Tail(lines))

\* C4: whatever the file holds, Load does not fail, and it leaves one record
\* for each line that decodes and none for any other line, in file order.
C4_MalformedLineTolerance ==
    /\ panicCause # "load"
    /\ pc = "dispatch" /\ fileAtStart.exists =>
         expenses = DecodedRecords(ReaderLines(fileAtStart.content))

\* A record the round trip is promised for: the date one token without
\* whitespace, the description trimmed and with no '|' followed by a number.
ValidRecord(e) ==
    /\ e.date # <<>>
    /\ \A i \in 1..Len(e.date) : ~IsWhitespace(e.date[i])
    /\ e.description = Trim(e.description)
    /\ \A i \in 1..Len(e.description) :
         e.description[i] = "|" =>
           ~ParseF32(SubSeq(e.description, i + 1, Len(e.description))).ok

\* What a load reads back from the file a save of the one record e wrote.
ReadBack(e) ==
    LoadLines(ReaderLines(SavedContent(<<e>>)), <<>>, 1, FALSE).expenses

\* C5: every valid record of the collection reads back, from what Save writes
\* for it, equal in id, date, description and amount.
C5_RoundTrip ==
    \A i \in 1..Len(expenses) :
      ValidRecord(expenses[i]) => ReadBack(expenses[i]) = <<expenses[i]>>

\* C6: after a save that wrote the file, the file has exactly one line per
\* record of the collection, in collection order, each the encoding of its
\* record.
C6_SaveWritesOneLinePerRecord ==
    pc = "done" /\ savedAt # "none" =>
      LET lines == ReaderLines(fileContent) IN
      /\ Len(lines) = Len(expenses)
      /\ \A i \in 1..Len(expenses) : lines[i] = Encode(expenses[i])

\* C7: delete_expense(id) removes exactly the first record with that id and
\* keeps the others and their order; with no such record it changes nothing
\* and main returns normally; next_id is unchanged either way.
C7_DeleteFrame ==
    [][pc = "dispatch" /\ args.name = "delete" /\ args.id > 0 =>
         /\ next_id' = next_id
         /\ pc' = "returning"
         /\ IF \E i \in 1..Len(expenses) : expenses[i].id = args.id
            THEN \E p \in 1..Len(expenses) :
                   /\ expenses[p].id = args.id
                   /\ \A j \in 1..(p - 1) : expenses[j].id # args.id
                   /\ Len(expenses') = Len(expenses) - 1
                   /\ \A j \in 1..(p - 1) : expenses'[j] = expenses[j]
                   /\ \A j \in p..(Len(expenses) - 1) : expenses'[j] = expenses[j + 1]
                   /\ output'.kind = "deleted"
            ELSE /\ expenses' = expenses
                 /\ output'.kind = "notfound"]_vars

\* A delete removed the first of two records that had its id.
C7_Witness ==
    /\ pc = "returning"
    /\ args.name = "delete"
    /\ output.kind = "deleted"
    /\ \E i \in 1..Len(expenses) : expenses[i].id = args.id

\* The sum the month filter is said to give: a record counts when bytes 5..7
\* of its date parse as the month asked for, and never when they do not parse.
RECURSIVE FilteredSum(_, _, _)
FilteredSum(exps, hasMonth, month) ==
    IF exps = <<>> THEN 0
    ELSE LET d == Head(exps).date
             counts == \/ ~hasMonth
                       \/ /\ Len(d) >= 7
                          /\ ParseU32(SubSeq(d, 6, 7)).ok
                          /\ ParseU32(SubSeq(d, 6, 7)).val = month
         IN  (IF counts THEN Head(exps).amount ELSE 0)
               + FilteredSum(Tail(exps), hasMonth, month)

\* C8: sum_expenses returns the sum of all amounts without a month, and with a
\* month m the sum over exactly the records whose date has month m; a record
\* whose date has no parseable month counts for no m the command can pass.
C8_SumByMonth ==
    pc = "returning" /\ args.name = "summary" =>
      output = [kind |-> "total",
                num |-> FilteredSum(expenses, args.month.some, args.month.val)]

\* C9: the ledger file never makes the process panic: a missing file loads as
\* the empty ledger with next_id = 1, a file that cannot be opened does not
\* abort Load, and a save that cannot create the file ends the run normally.
C9_NoFatalFileError ==
    /\ panicCause # "open"
    /\ pc = "dispatch" /\ ~fileAtStart.exists => expenses = <<>> /\ next_id = 1
    /\ pc = "done" /\ saves = 1 /\ savedAt = "none" /\ panicCause = "none" =>
         outcome = "ok"

\* C10: the file is written at most once per invocation, only by the save at
\* clean shutdown after the command; an invocation that ends any other way
\* leaves the file as it found it.
C10_SaveOnlyAtCleanShutdown ==
    /\ saves <= 1
    /\ savedAt \in {"none", "returning"}
    /\ pc = "done" /\ outcome # "ok" =>
         fileAtStart = [exists |-> fileExists, content |-> fileContent]
====
